---------------------------- MODULE Spec2Model ----------------------------
(***************************************************************************)
(* Model of the seller-apis synchronisation scripts: seller.py (Ozon) and  *)
(* market.py (Yandex Market).                                              *)
(*                                                                         *)
(* Texts (quantity and price cells, converted prices) are sequences of     *)
(* one-character strings, so that parsing and formatting are computed and  *)
(* not assumed.  Product codes and offer identifiers are plain strings:    *)
(* str() of a string is that string.                                       *)
(***************************************************************************)
EXTENDS Integers, Sequences, FiniteSets, TLC

VARIABLES
    pc,              \* position of the running function / script
    watch_remnants,  \* the downloaded snapshot: records Kod, Kolichestvo, Cena
    catalog,         \* history: the identifier list as get_offer_ids returned it
    offer_ids,       \* the identifier list object, mutated by create_stocks
    stocks,          \* the list create_stocks returned
    prices,          \* the list create_prices returned
    lst,             \* divide: the list argument
    n,               \* divide: the size argument
    chunks,          \* list(divide(lst, n))
    submitted,       \* main: how many of chunks have been submitted
    product_list,    \* get_offer_ids: the items fetched so far
    total,           \* seller get_offer_ids: total of the latest response
    last_id,         \* seller get_offer_ids: cursor of the next request
    page,            \* market get_offer_ids: page token of the next request
    fetches,         \* get_offer_ids: requests answered so far
    asked,           \* history: the page tokens market get_product_list was given
    listing,         \* the Yandex Market server's paged offer listing
    sent_stocks,     \* history: the batches update_stocks delivered
    sent_prices,     \* history: the batches update_price delivered
    error,           \* the call whose exception ended the run, or ""
    campaign,        \* market main: the campaign being updated, or ""
    coroutines       \* market main: the coroutine objects created so far

argVars == <<lst, n>>
pageVars == <<product_list, total, last_id, page, fetches, asked, listing>>
sendVars == <<sent_stocks, sent_prices, error, submitted>>
asyncVars == <<campaign, coroutines>>

vars == <<pc, watch_remnants, catalog, offer_ids, stocks, prices, lst, n, chunks,
          submitted, product_list, total, last_id, page, fetches, asked, listing,
          sent_stocks, sent_prices, error, campaign, coroutines>>

-----------------------------------------------------------------------------
(* Bounds of the model *)

MaxSnapshot == 2   \* records in a snapshot
MaxCatalog == 3    \* identifiers in a catalog
MaxLen == 5        \* length of a list given to divide
MaxSize == 3       \* sizes given to divide range over -MaxSize..MaxSize

Codes == {"A", "B", "C"}

\* Quantity cells: ">10", "1", "7", "x"
QuantityTexts ==
    { <<">", "1", "0">>, <<"1">>, <<"7">>, <<"x">> }

\* Price cells: "5'990.00 rub.", "", "123"
PriceTexts ==
    { <<"5", "'", "9", "9", "0", ".", "0", "0", " ", "r", "u", "b", ".">>,
      <<>>,
      <<"1", "2", "3">> }

Items == {"a", "b"}

SeqsUpTo(S, k) == UNION { [1..m -> S] : m \in 0..k }

-----------------------------------------------------------------------------
(* Python built-ins the code relies on *)

DigitChars == <<"0", "1", "2", "3", "4", "5", "6", "7", "8", "9">>

IsDigit(c) == \E d \in 1..10 : DigitChars[d] = c

DigitVal(c) == (CHOOSE d \in 1..10 : DigitChars[d] = c) - 1

\* int(text) raises ValueError unless the text is a decimal numeral
\* (texts here hold no sign, blank or underscore)
py_int_ok(t) == Len(t) > 0 /\ \A i \in 1..Len(t) : IsDigit(t[i])

RECURSIVE py_int(_)
py_int(t) ==
    IF t = <<>> THEN 0
    ELSE 10 * py_int(SubSeq(t, 1, Len(t) - 1)) + DigitVal(t[Len(t)])

\* x in l
\* faulty variant: every element is taken to be in the list
py_in_always(x, l) == TRUE
py_in(x, l) == \E i \in 1..Len(l) : l[i] = x

\* l.remove(x): drops the first element equal to x (x is in l)
\* faulty variant: the element is not removed
py_remove_nothing(l, x) == l
py_remove(l, x) ==
    LET i == CHOOSE k \in 1..Len(l) : l[k] = x /\ \A j \in 1..(k - 1) : l[j] # x
    IN  SubSeq(l, 1, i - 1) \o SubSeq(l, i + 1, Len(l))

\* range(start, stop, step) raises ValueError when step is zero
\* faulty variant: every step of 0 or below is rejected
py_range_raises_nonpositive(step) == step <= 0
py_range_raises(step) == step = 0

\* range(start, stop, step) as the sequence of its values (step # 0)
RECURSIVE py_range(_, _, _)
py_range(start, stop, step) ==
    IF (step > 0 /\ start < stop) \/ (step < 0 /\ start > stop)
    THEN <<start>> \o py_range(start + step, stop, step)
    ELSE <<>>

\* l[i:j] for 0 <= i <= j, clamped to the list
py_slice(l, i, j) == SubSeq(l, i + 1, IF j < Len(l) THEN j ELSE Len(l))

\* price.split(".")[0]
RECURSIVE py_split_dot_first(_)
py_split_dot_first(s) ==
    IF s = <<>> \/ Head(s) = "." THEN <<>>
    ELSE <<Head(s)>> \o py_split_dot_first(Tail(s))

-----------------------------------------------------------------------------
(* seller.py *)

seller_price_conversion(price) == SelectSeq(py_split_dot_first(price), IsDigit)

seller_divide_raises(l, size) == py_range_raises(size)

\* faulty variant: each chunk runs one element into the next
seller_divide_overlapping(l, size) ==
    LET starts == py_range(0, Len(l), size)
    IN  [k \in 1..Len(starts) |-> py_slice(l, starts[k], starts[k] + size + 1)]
seller_divide(l, size) ==
    LET starts == py_range(0, Len(l), size)
    IN  [k \in 1..Len(starts) |-> py_slice(l, starts[k], starts[k] + size)]

\* the quantity branch of create_stocks
seller_stock_raises(watch) ==
    /\ watch.Kolichestvo # <<">", "1", "0">>
    /\ watch.Kolichestvo # <<"1">>
    /\ ~py_int_ok(watch.Kolichestvo)

\* faulty variant: without the branch for "1"
seller_stock_literal_one(watch) ==
    IF watch.Kolichestvo = <<">", "1", "0">> THEN 100
    ELSE py_int(watch.Kolichestvo)
seller_stock(watch) ==
    IF watch.Kolichestvo = <<">", "1", "0">> THEN 100
    ELSE IF watch.Kolichestvo = <<"1">> THEN 0
    ELSE py_int(watch.Kolichestvo)

\* the second loop of create_stocks: what is left of offer_ids gets stock 0
\* faulty variant: the missing identifiers get stock 100
seller_missing_full(ids) ==
    [k \in 1..Len(ids) |-> [offer_id |-> ids[k], stock |-> 100]]
seller_missing(ids) ==
    [k \in 1..Len(ids) |-> [offer_id |-> ids[k], stock |-> 0]]

\* the first loop of create_stocks, from record i on; ids is offer_ids as
\* mutated so far, acc the stocks appended so far
RECURSIVE seller_stocks_loop(_, _, _, _)
seller_stocks_loop(remnants, i, ids, acc) ==
    IF i > Len(remnants)
    THEN [raised |-> FALSE, stocks |-> acc, offer_ids |-> ids]
    ELSE LET watch == remnants[i]
         IN  IF py_in(watch.Kod, ids)
             THEN IF seller_stock_raises(watch)
                  THEN [raised |-> TRUE, stocks |-> acc, offer_ids |-> ids]
                  ELSE seller_stocks_loop(
                           remnants, i + 1, py_remove(ids, watch.Kod),
                           Append(acc, [offer_id |-> watch.Kod,
                                        stock |-> seller_stock(watch)]))
             ELSE seller_stocks_loop(remnants, i + 1, ids, acc)

\* faulty variant: the missing identifiers come first
seller_create_stocks_missing_first(remnants, ids) ==
    LET first == seller_stocks_loop(remnants, 1, ids, <<>>)
    IN  IF first.raised THEN first
        ELSE [raised |-> FALSE,
              stocks |-> seller_missing(first.offer_ids) \o first.stocks,
              offer_ids |-> first.offer_ids]
seller_create_stocks(remnants, ids) ==
    LET first == seller_stocks_loop(remnants, 1, ids, <<>>)
    IN  IF first.raised THEN first
        ELSE [raised |-> FALSE,
              stocks |-> first.stocks \o seller_missing(first.offer_ids),
              offer_ids |-> first.offer_ids]

seller_price(watch) ==
    [auto_action_enabled |-> "UNKNOWN",
     currency_code |-> "RUB",
     offer_id |-> watch.Kod,
     old_price |-> <<"0">>,
     price |-> seller_price_conversion(watch.Cena)]

RECURSIVE seller_prices_loop(_, _, _, _)
seller_prices_loop(remnants, i, ids, acc) ==
    IF i > Len(remnants) THEN acc
    ELSE IF py_in(remnants[i].Kod, ids)
         THEN seller_prices_loop(remnants, i + 1, ids,
                                 Append(acc, seller_price(remnants[i])))
         ELSE seller_prices_loop(remnants, i + 1, ids, acc)

seller_create_prices(remnants, ids) == seller_prices_loop(remnants, 1, ids, <<>>)

-----------------------------------------------------------------------------
(* market.py *)

\* datetime.utcnow() of the call, one value for all records of the call
Date == "2023-12-14T12:00:00Z"

\* the warehouse of the FBS campaign
Warehouses == {"WAREHOUSE_FBS_ID"}

market_stock_raises(watch) ==
    /\ watch.Kolichestvo # <<">", "1", "0">>
    /\ watch.Kolichestvo # <<"1">>
    /\ ~py_int_ok(watch.Kolichestvo)

market_stock(watch) ==
    IF watch.Kolichestvo = <<">", "1", "0">> THEN 100
    ELSE IF watch.Kolichestvo = <<"1">> THEN 0
    ELSE py_int(watch.Kolichestvo)

market_stock_record(sku, warehouse_id, count) ==
    [sku |-> sku,
     warehouseId |-> warehouse_id,
     items |-> << [count |-> count, type |-> "FIT", updatedAt |-> Date] >>]

market_missing(ids, warehouse_id) ==
    [k \in 1..Len(ids) |-> market_stock_record(ids[k], warehouse_id, 0)]

RECURSIVE market_stocks_loop(_, _, _, _, _)
market_stocks_loop(remnants, i, ids, warehouse_id, acc) ==
    IF i > Len(remnants)
    THEN [raised |-> FALSE, stocks |-> acc, offer_ids |-> ids]
    ELSE LET watch == remnants[i]
         IN  IF py_in(watch.Kod, ids)
             THEN IF market_stock_raises(watch)
                  THEN [raised |-> TRUE, stocks |-> acc, offer_ids |-> ids]
                  ELSE market_stocks_loop(
                           remnants, i + 1, py_remove(ids, watch.Kod), warehouse_id,
                           Append(acc, market_stock_record(
                                           watch.Kod, warehouse_id,
                                           market_stock(watch))))
             ELSE market_stocks_loop(remnants, i + 1, ids, warehouse_id, acc)

market_create_stocks(remnants, ids, warehouse_id) ==
    LET first == market_stocks_loop(remnants, 1, ids, warehouse_id, <<>>)
    IN  IF first.raised THEN first
        ELSE [raised |-> FALSE,
              stocks |-> first.stocks \o market_missing(first.offer_ids, warehouse_id),
              offer_ids |-> first.offer_ids]

\* int(price_conversion(...)) raises on a text without digits before the point
market_price_raises(watch) == ~py_int_ok(seller_price_conversion(watch.Cena))

market_price(watch) ==
    [id |-> watch.Kod,
     price |-> [value |-> py_int(seller_price_conversion(watch.Cena)),
                currencyId |-> "RUR"]]

RECURSIVE market_prices_loop(_, _, _, _)
market_prices_loop(remnants, i, ids, acc) ==
    IF i > Len(remnants) THEN [raised |-> FALSE, prices |-> acc]
    ELSE IF py_in(remnants[i].Kod, ids)
         THEN IF market_price_raises(remnants[i])
              THEN [raised |-> TRUE, prices |-> acc]
              ELSE market_prices_loop(remnants, i + 1, ids,
                                      Append(acc, market_price(remnants[i])))
         ELSE market_prices_loop(remnants, i + 1, ids, acc)

market_create_prices(remnants, ids) == market_prices_loop(remnants, 1, ids, <<>>)

-----------------------------------------------------------------------------
(* create_stocks applied to drawn arguments *)

DefaultQuantity == <<"7">>
DefaultPrice == <<"1", "2", "3">>

StockSnapshots ==
    SeqsUpTo([Kod : Codes, Kolichestvo : QuantityTexts, Cena : {DefaultPrice}],
             MaxSnapshot)

PriceSnapshots ==
    SeqsUpTo([Kod : Codes, Kolichestvo : {DefaultQuantity}, Cena : PriceTexts],
             MaxSnapshot)

Catalogs == SeqsUpTo(Codes, MaxCatalog)

NoPaging ==
    /\ product_list = <<>>
    /\ total = 0
    /\ last_id = ""
    /\ page = 0
    /\ fetches = 0
    /\ asked = <<>>
    /\ listing = [pages |-> <<>>, last |-> 0]

NoCampaign ==
    /\ campaign = ""
    /\ coroutines = <<>>

NoSending ==
    /\ sent_stocks = <<>>
    /\ sent_prices = <<>>
    /\ error = ""
    /\ submitted = 0

InitStocks ==
    /\ pc = "call"
    /\ watch_remnants \in StockSnapshots
    /\ catalog \in Catalogs
    /\ offer_ids = catalog
    /\ stocks = <<>>
    /\ prices = <<>>
    /\ lst = <<>>
    /\ n = 1
    /\ chunks = <<>>
    /\ NoPaging
    /\ NoSending
    /\ NoCampaign

SellerCreateStocks ==
    /\ pc = "call"
    /\ LET r == seller_create_stocks(watch_remnants, offer_ids)
       IN  /\ pc' = IF r.raised THEN "raised" ELSE "returned"
           /\ stocks' = r.stocks
           /\ offer_ids' = r.offer_ids
    /\ UNCHANGED <<watch_remnants, catalog, prices, chunks, argVars, asyncVars, pageVars, sendVars>>

MarketCreateStocks ==
    /\ pc = "call"
    /\ \E warehouse_id \in Warehouses :
         LET r == market_create_stocks(watch_remnants, offer_ids, warehouse_id)
         IN  /\ pc' = IF r.raised THEN "raised" ELSE "returned"
             /\ stocks' = r.stocks
             /\ offer_ids' = r.offer_ids
    /\ UNCHANGED <<watch_remnants, catalog, prices, chunks, argVars, asyncVars, pageVars, sendVars>>

NextStocks == SellerCreateStocks \/ MarketCreateStocks

SpecStocks == InitStocks /\ [][NextStocks]_vars

-----------------------------------------------------------------------------
(* create_prices applied to drawn arguments *)

InitPrices ==
    /\ pc = "call"
    /\ watch_remnants \in PriceSnapshots
    /\ catalog \in Catalogs
    /\ offer_ids = catalog
    /\ stocks = <<>>
    /\ prices = <<>>
    /\ lst = <<>>
    /\ n = 1
    /\ chunks = <<>>
    /\ NoPaging
    /\ NoSending
    /\ NoCampaign

SellerCreatePrices ==
    /\ pc = "call"
    /\ pc' = "returned"
    /\ prices' = seller_create_prices(watch_remnants, offer_ids)
    /\ UNCHANGED <<watch_remnants, catalog, offer_ids, stocks, chunks, argVars, asyncVars, pageVars, sendVars>>

MarketCreatePrices ==
    /\ pc = "call"
    /\ LET r == market_create_prices(watch_remnants, offer_ids)
       IN  /\ pc' = IF r.raised THEN "raised" ELSE "returned"
           /\ prices' = r.prices
    /\ UNCHANGED <<watch_remnants, catalog, offer_ids, stocks, chunks, argVars, asyncVars, pageVars, sendVars>>

NextPrices == SellerCreatePrices \/ MarketCreatePrices

SpecPrices == InitPrices /\ [][NextPrices]_vars

-----------------------------------------------------------------------------
(* list(divide(lst, n)) applied to drawn arguments *)

InitDivide ==
    /\ pc = "call"
    /\ watch_remnants = <<>>
    /\ catalog = <<>>
    /\ offer_ids = <<>>
    /\ stocks = <<>>
    /\ prices = <<>>
    /\ lst \in SeqsUpTo(Items, MaxLen)
    /\ n \in (0 - MaxSize)..MaxSize
    /\ chunks = <<>>
    /\ NoPaging
    /\ NoSending
    /\ NoCampaign

ListDivide ==
    /\ pc = "call"
    /\ IF seller_divide_raises(lst, n)
       THEN pc' = "raised" /\ chunks' = <<>>
       ELSE pc' = "returned" /\ chunks' = seller_divide(lst, n)
    /\ UNCHANGED <<watch_remnants, catalog, offer_ids, stocks, prices, argVars, asyncVars, pageVars, sendVars>>

NextDivide == ListDivide

SpecDivide == InitDivide /\ [][NextDivide]_vars

-----------------------------------------------------------------------------
(* seller.py: main *)

MaxPage == 2       \* items in one page of a listing
MaxTotal == 3      \* the largest total an Ozon response reports
MaxFetches == 2    \* requests get_offer_ids is followed through
MaxPages == 2      \* pages of a Yandex Market listing

\* update_stocks takes 100 records a request and update_price 900
\* (seller.py lines 359 and 363); the model scales both batch sizes down
SellerStockBatch == 2
SellerPriceBatch == 2

MainCodes == {"A", "B"}

\* rows of the feed: (">10", "1'000.00 r."), ("7", "123"), ("x", "")
MainRows ==
    { [Kolichestvo |-> <<">", "1", "0">>,
       Cena |-> <<"1", "'", "0", "0", "0", ".", "0", "0", " ", "r", ".">>],
      [Kolichestvo |-> <<"7">>, Cena |-> <<"1", "2", "3">>],
      [Kolichestvo |-> <<"x">>, Cena |-> <<>>] }

MainSnapshots ==
    SeqsUpTo({ [Kod |-> c, Kolichestvo |-> r.Kolichestvo, Cena |-> r.Cena] :
                 c \in MainCodes, r \in MainRows },
             MaxSnapshot)

\* the "items" of one response
SellerPages == SeqsUpTo([offer_id : MainCodes], MaxPage)

\* the loop of get_offer_ids ends when the total equals the items fetched
seller_all_fetched(reported, products) == reported = Len(products)

seller_offer_ids(products) == [i \in 1..Len(products) |-> products[i].offer_id]

InitSeller ==
    /\ pc = "get_offer_ids"
    /\ watch_remnants = <<>>
    /\ catalog = <<>>
    /\ offer_ids = <<>>
    /\ stocks = <<>>
    /\ prices = <<>>
    /\ lst = <<>>
    /\ n = 1
    /\ chunks = <<>>
    /\ NoPaging
    /\ NoSending
    /\ NoCampaign

\* one turn of the loop of get_offer_ids: get_product_list answers
SellerGetProductList ==
    /\ pc = "get_offer_ids"
    /\ fetches < MaxFetches
    /\ \E items \in SellerPages, reported \in 0..MaxTotal :
         LET products == product_list \o items
         IN  /\ product_list' = products
             /\ total' = reported
             /\ last_id' = IF items = <<>> THEN "" ELSE items[Len(items)].offer_id
             /\ fetches' = fetches + 1
             /\ IF seller_all_fetched(reported, products)
                THEN /\ pc' = "download_stock"
                     /\ catalog' = seller_offer_ids(products)
                     /\ offer_ids' = seller_offer_ids(products)
                ELSE UNCHANGED <<pc, catalog, offer_ids>>
    /\ UNCHANGED <<watch_remnants, stocks, prices, chunks, argVars, asyncVars,
                   page, asked, listing, sendVars>>

\* raise_for_status() in get_product_list raises
SellerGetProductListFails ==
    /\ pc = "get_offer_ids"
    /\ fetches < MaxFetches
    /\ pc' = "caught"
    /\ error' = "get_product_list"
    /\ UNCHANGED <<watch_remnants, catalog, offer_ids, stocks, prices, chunks,
                   argVars, asyncVars, pageVars, sent_stocks, sent_prices, submitted>>

SellerDownloadStock ==
    /\ pc = "download_stock"
    /\ watch_remnants' \in MainSnapshots
    /\ pc' = "create_stocks"
    /\ UNCHANGED <<catalog, offer_ids, stocks, prices, chunks, argVars, asyncVars,
                   pageVars, sendVars>>

SellerDownloadStockFails ==
    /\ pc = "download_stock"
    /\ pc' = "caught"
    /\ error' = "download_stock"
    /\ UNCHANGED <<watch_remnants, catalog, offer_ids, stocks, prices, chunks,
                   argVars, asyncVars, pageVars, sent_stocks, sent_prices, submitted>>

\* stocks = create_stocks(watch_remnants, offer_ids); list(divide(stocks, 100))
SellerMainCreateStocks ==
    /\ pc = "create_stocks"
    /\ LET r == seller_create_stocks(watch_remnants, offer_ids)
       IN  /\ offer_ids' = r.offer_ids
           /\ IF r.raised
              THEN /\ pc' = "caught"
                   /\ error' = "create_stocks"
                   /\ UNCHANGED <<stocks, chunks, submitted>>
              ELSE /\ pc' = "update_stocks"
                   /\ stocks' = r.stocks
                   /\ chunks' = seller_divide(r.stocks, SellerStockBatch)
                   /\ submitted' = 0
                   /\ error' = error
    /\ UNCHANGED <<watch_remnants, catalog, prices, argVars, asyncVars, pageVars,
                   sent_stocks, sent_prices>>

SellerMainUpdateStocks ==
    /\ pc = "update_stocks"
    /\ submitted < Len(chunks)
    /\ sent_stocks' = Append(sent_stocks, chunks[submitted + 1])
    /\ submitted' = submitted + 1
    /\ UNCHANGED <<pc, watch_remnants, catalog, offer_ids, stocks, prices, chunks,
                   argVars, asyncVars, pageVars, sent_prices, error>>

SellerMainUpdateStocksFails ==
    /\ pc = "update_stocks"
    /\ submitted < Len(chunks)
    /\ pc' = "caught"
    /\ error' = "update_stocks"
    /\ UNCHANGED <<watch_remnants, catalog, offer_ids, stocks, prices, chunks,
                   argVars, asyncVars, pageVars, sent_stocks, sent_prices, submitted>>

\* prices = create_prices(watch_remnants, offer_ids); list(divide(prices, 900))
SellerMainCreatePrices ==
    /\ pc = "update_stocks"
    /\ submitted = Len(chunks)
    /\ pc' = "update_price"
    /\ prices' = seller_create_prices(watch_remnants, offer_ids)
    /\ chunks' = seller_divide(seller_create_prices(watch_remnants, offer_ids),
                               SellerPriceBatch)
    /\ submitted' = 0
    /\ UNCHANGED <<watch_remnants, catalog, offer_ids, stocks, argVars, asyncVars, pageVars,
                   sent_stocks, sent_prices, error, campaign, coroutines>>

SellerMainUpdatePrice ==
    /\ pc = "update_price"
    /\ submitted < Len(chunks)
    /\ sent_prices' = Append(sent_prices, chunks[submitted + 1])
    /\ submitted' = submitted + 1
    /\ UNCHANGED <<pc, watch_remnants, catalog, offer_ids, stocks, prices, chunks,
                   argVars, asyncVars, pageVars, sent_stocks, error>>

SellerMainUpdatePriceFails ==
    /\ pc = "update_price"
    /\ submitted < Len(chunks)
    /\ pc' = "caught"
    /\ error' = "update_price"
    /\ UNCHANGED <<watch_remnants, catalog, offer_ids, stocks, prices, chunks,
                   argVars, asyncVars, pageVars, sent_stocks, sent_prices, submitted>>

SellerMainReturns ==
    /\ pc = "update_price"
    /\ submitted = Len(chunks)
    /\ pc' = "done"
    /\ UNCHANGED <<watch_remnants, catalog, offer_ids, stocks, prices, chunks,
                   argVars, asyncVars, pageVars, sendVars>>

NextSeller ==
    \/ SellerGetProductList
    \/ SellerGetProductListFails
    \/ SellerDownloadStock
    \/ SellerDownloadStockFails
    \/ SellerMainCreateStocks
    \/ SellerMainUpdateStocks
    \/ SellerMainUpdateStocksFails
    \/ SellerMainCreatePrices
    \/ SellerMainUpdatePrice
    \/ SellerMainUpdatePriceFails
    \/ SellerMainReturns

SpecSeller == InitSeller /\ [][NextSeller]_vars

-----------------------------------------------------------------------------
(* market.py: get_offer_ids against a paged listing *)

\* Page tokens are numbers: 0 is the empty string, -1 is a token that is
\* absent (None), and t > 0 is the token that names page t of the listing.

MarketPages == SeqsUpTo([offer : [shopSku : MainCodes]], MaxPage)

Listings ==
    { [pages |-> ps, last |-> e] :
        ps \in UNION { [1..m -> MarketPages] : m \in 1..MaxPages },
        e \in {0, 0 - 1} }

\* what get_product_list(page, ...) returns from the server's listing
market_get_product_list(token) ==
    LET at == IF token <= 0 THEN 1 ELSE token
    IN  [offerMappingEntries |-> listing.pages[at],
         paging |-> [nextPageToken |->
                        IF at < Len(listing.pages) THEN at + 1 ELSE listing.last]]

\* page = some_prod.get("paging").get("nextPageToken")
\* faulty variant: the token of the response is dropped
market_next_page_first(some_prod) == 0
market_next_page(some_prod) == some_prod.paging.nextPageToken

\* not page
market_no_page(token) == token <= 0

market_offer_ids(products) ==
    [i \in 1..Len(products) |-> products[i].offer.shopSku]

InitMarketOfferIds ==
    /\ pc = "get_offer_ids"
    /\ watch_remnants = <<>>
    /\ catalog = <<>>
    /\ offer_ids = <<>>
    /\ stocks = <<>>
    /\ prices = <<>>
    /\ lst = <<>>
    /\ n = 1
    /\ chunks = <<>>
    /\ product_list = <<>>
    /\ total = 0
    /\ last_id = ""
    /\ page = 0
    /\ fetches = 0
    /\ asked = <<>>
    /\ listing \in Listings
    /\ NoSending
    /\ NoCampaign

\* one turn of the loop of get_offer_ids
MarketGetProductList ==
    /\ pc = "get_offer_ids"
    /\ fetches <= MaxPages
    /\ LET some_prod == market_get_product_list(page)
           products == product_list \o some_prod.offerMappingEntries
       IN  /\ asked' = Append(asked, page)
           /\ fetches' = fetches + 1
           /\ product_list' = products
           /\ page' = market_next_page(some_prod)
           /\ IF market_no_page(market_next_page(some_prod))
              THEN /\ pc' = "returned"
                   /\ catalog' = market_offer_ids(products)
                   /\ offer_ids' = market_offer_ids(products)
              ELSE UNCHANGED <<pc, catalog, offer_ids>>
    /\ UNCHANGED <<watch_remnants, stocks, prices, chunks, argVars, asyncVars,
                   total, last_id, listing, sendVars>>

MarketGetProductListFails ==
    /\ pc = "get_offer_ids"
    /\ fetches <= MaxPages
    /\ pc' = "raised"
    /\ error' = "get_product_list"
    /\ UNCHANGED <<watch_remnants, catalog, offer_ids, stocks, prices, chunks,
                   argVars, asyncVars, pageVars, sent_stocks, sent_prices, submitted>>

NextMarketOfferIds == MarketGetProductList \/ MarketGetProductListFails

SpecMarketOfferIds == InitMarketOfferIds /\ [][NextMarketOfferIds]_vars

-----------------------------------------------------------------------------
(* market.py: main *)

\* update_stocks takes 2000 records a request (market.py lines 331 and 340);
\* the model scales the batch size down
MarketStockBatch == 2

\* feeds download_stock returns to market.main
MarketMainSnapshots ==
    { <<>>,
      << [Kod |-> "A", Kolichestvo |-> <<">", "1", "0">>,
          Cena |-> <<"1", "'", "0", "0", "0", ".", "0", "0", " ", "r", ".">>] >>,
      << [Kod |-> "B", Kolichestvo |-> <<"x">>, Cena |-> <<>>] >>,
      << [Kod |-> "A", Kolichestvo |-> <<"7">>, Cena |-> <<"1", "2", "3">>],
         [Kod |-> "B", Kolichestvo |-> <<">", "1", "0">>, Cena |-> <<"1", "2", "3">>] >> }

\* pages of the listings of the two campaigns
MarketMainPages ==
    { << [offer |-> [shopSku |-> "A"]] >>,
      << [offer |-> [shopSku |-> "B"]],
         [offer |-> [shopSku |-> "A"]],
         [offer |-> [shopSku |-> "C"]] >> }

MarketMainListings ==
    { [pages |-> ps, last |-> e] :
        ps \in UNION { [1..m -> MarketMainPages] : m \in 1..MaxPages },
        e \in {0, 0 - 1} }

\* warehouse_fbs_id goes with campaign_fbs_id, warehouse_dbs_id with
\* campaign_dbs_id
market_warehouse(c) ==
    IF c = "FBS" THEN "WAREHOUSE_FBS_ID" ELSE "WAREHOUSE_DBS_ID"

\* upload_prices is declared async def: the call makes a coroutine object and
\* runs nothing of the body; main neither awaits the object nor hands it to
\* an event loop, so its state stays "created"
market_upload_prices_call(c) ==
    [function |-> "upload_prices", campaign |-> c, state |-> "created"]

InitMarketMain ==
    /\ pc = "m_download_stock"
    /\ watch_remnants = <<>>
    /\ catalog = <<>>
    /\ offer_ids = <<>>
    /\ stocks = <<>>
    /\ prices = <<>>
    /\ lst = <<>>
    /\ n = 1
    /\ chunks = <<>>
    /\ NoPaging
    /\ NoSending
    /\ NoCampaign

\* get_offer_ids is entered for campaign c: page = "", product_list = []
MarketMainEnterGetOfferIds(c) ==
    /\ pc' = "m_get_offer_ids"
    /\ campaign' = c
    /\ listing' \in MarketMainListings
    /\ page' = 0
    /\ product_list' = <<>>
    /\ fetches' = 0
    /\ asked' = <<>>

\* watch_remnants = download_stock(), before the try statement
MarketMainDownloadStock ==
    /\ pc = "m_download_stock"
    /\ watch_remnants' \in MarketMainSnapshots
    /\ MarketMainEnterGetOfferIds("FBS")
    /\ UNCHANGED <<catalog, offer_ids, stocks, prices, chunks, argVars,
                   total, last_id, sendVars, coroutines>>

\* download_stock raises outside the try statement: main is left by the
\* exception
MarketMainDownloadStockFails ==
    /\ pc = "m_download_stock"
    /\ pc' = "m_crashed"
    /\ error' = "download_stock"
    /\ UNCHANGED <<watch_remnants, catalog, offer_ids, stocks, prices, chunks,
                   argVars, asyncVars, pageVars, sent_stocks, sent_prices,
                   submitted>>

\* one turn of the loop of get_offer_ids, called from main
MarketMainGetProductList ==
    /\ pc = "m_get_offer_ids"
    /\ fetches <= MaxPages
    /\ LET some_prod == market_get_product_list(page)
           products == product_list \o some_prod.offerMappingEntries
       IN  /\ asked' = Append(asked, page)
           /\ fetches' = fetches + 1
           /\ product_list' = products
           /\ page' = market_next_page(some_prod)
           /\ IF market_no_page(market_next_page(some_prod))
              THEN /\ pc' = "m_create_stocks"
                   /\ catalog' = market_offer_ids(products)
                   /\ offer_ids' = market_offer_ids(products)
              ELSE UNCHANGED <<pc, catalog, offer_ids>>
    /\ UNCHANGED <<watch_remnants, stocks, prices, chunks, argVars, asyncVars,
                   total, last_id, listing, sendVars>>

MarketMainGetProductListFails ==
    /\ pc = "m_get_offer_ids"
    /\ fetches <= MaxPages
    /\ pc' = "m_caught"
    /\ error' = "get_product_list"
    /\ UNCHANGED <<watch_remnants, catalog, offer_ids, stocks, prices, chunks,
                   argVars, asyncVars, pageVars, sent_stocks, sent_prices,
                   submitted>>

\* stocks = create_stocks(watch_remnants, offer_ids, warehouse_id);
\* list(divide(stocks, 2000))
MarketMainCreateStocks ==
    /\ pc = "m_create_stocks"
    /\ LET r == market_create_stocks(watch_remnants, offer_ids,
                                     market_warehouse(campaign))
       IN  /\ offer_ids' = r.offer_ids
           /\ IF r.raised
              THEN /\ pc' = "m_caught"
                   /\ error' = "create_stocks"
                   /\ UNCHANGED <<stocks, chunks, submitted>>
              ELSE /\ pc' = "m_update_stocks"
                   /\ stocks' = r.stocks
                   /\ chunks' = seller_divide(r.stocks, MarketStockBatch)
                   /\ submitted' = 0
                   /\ error' = error
    /\ UNCHANGED <<watch_remnants, catalog, prices, argVars, asyncVars, pageVars,
                   sent_stocks, sent_prices>>

MarketMainUpdateStocks ==
    /\ pc = "m_update_stocks"
    /\ submitted < Len(chunks)
    /\ sent_stocks' = Append(sent_stocks, chunks[submitted + 1])
    /\ submitted' = submitted + 1
    /\ UNCHANGED <<pc, watch_remnants, catalog, offer_ids, stocks, prices, chunks,
                   argVars, asyncVars, pageVars, sent_prices, error>>

\* faulty variant: the failed chunk is skipped and the loop goes on
MarketMainUpdateStocksSkips ==
    /\ pc = "m_update_stocks"
    /\ submitted < Len(chunks)
    /\ submitted' = submitted + 1
    /\ error' = "update_stocks"
    /\ UNCHANGED <<pc, watch_remnants, catalog, offer_ids, stocks, prices, chunks,
                   argVars, asyncVars, pageVars, sent_stocks, sent_prices>>
MarketMainUpdateStocksFails ==
    /\ pc = "m_update_stocks"
    /\ submitted < Len(chunks)
    /\ pc' = "m_caught"
    /\ error' = "update_stocks"
    /\ UNCHANGED <<watch_remnants, catalog, offer_ids, stocks, prices, chunks,
                   argVars, asyncVars, pageVars, sent_stocks, sent_prices,
                   submitted>>

\* upload_prices(watch_remnants, campaign_id, market_token) after the last
\* chunk; then the DBS campaign, or the end of main
MarketMainUploadPrices ==
    /\ pc = "m_update_stocks"
    /\ submitted = Len(chunks)
    /\ coroutines' = Append(coroutines, market_upload_prices_call(campaign))
    /\ IF campaign = "FBS"
       THEN MarketMainEnterGetOfferIds("DBS")
       ELSE /\ pc' = "m_done"
            /\ UNCHANGED <<campaign, listing, page, product_list, fetches, asked>>
    /\ UNCHANGED <<watch_remnants, catalog, offer_ids, stocks, prices, chunks,
                   argVars, total, last_id, sendVars>>

NextMarketMain ==
    \/ MarketMainDownloadStock
    \/ MarketMainDownloadStockFails
    \/ MarketMainGetProductList
    \/ MarketMainGetProductListFails
    \/ MarketMainCreateStocks
    \/ MarketMainUpdateStocks
    \/ MarketMainUpdateStocksFails
    \/ MarketMainUploadPrices

SpecMarketMain == InitMarketMain /\ [][NextMarketMain]_vars

\* either script is run
InitMain == InitSeller \/ InitMarketMain

NextMain == NextSeller \/ NextMarketMain

SpecMain == InitMain /\ [][NextMain]_vars

-----------------------------------------------------------------------------
(* Properties of create_stocks *)

Range(s) == { s[i] : i \in 1..Len(s) }

Occurrences(s, x) == Cardinality({ i \in 1..Len(s) : s[i] = x })

\* the identifier and the stock of an update record of either marketplace
Sku(r) == IF "offer_id" \in DOMAIN r THEN r.offer_id ELSE r.sku

Count(r) == IF "stock" \in DOMAIN r THEN r.stock ELSE r.items[1].count

SkuSeq(updates) == [i \in 1..Len(updates) |-> Sku(updates[i])]

SnapshotCodes == { watch_remnants[i].Kod : i \in 1..Len(watch_remnants) }

NoDuplicates(s) == \A i, j \in 1..Len(s) : s[i] = s[j] => i = j

\* the quantity policy as the specification tabulates it
QuantityNormalizer(q) ==
    CASE q = <<">", "1", "0">> -> 100
      [] q = <<"1">> -> 0
      [] q = <<"7">> -> 7
      [] OTHER -> 0 - 1

FirstWith(code) ==
    CHOOSE i \in 1..Len(watch_remnants) :
        /\ watch_remnants[i].Kod = code
        /\ \A j \in 1..(i - 1) : watch_remnants[j].Kod # code

\* the elements of s at the positions in P, in the order of s
AtPositions(s, P) ==
    LET positions == SelectSeq([i \in 1..Len(s) |-> i], LAMBDA i : i \in P)
    IN  [k \in 1..Len(positions) |-> s[positions[k]]]

C4_AtMostOneUpdateFirstRecordWins ==
    pc = "returned" =>
        \A code \in SnapshotCodes \cap Range(catalog) :
            /\ Occurrences(SkuSeq(stocks), code) <= 1
            /\ \A i \in 1..Len(stocks) :
                 Sku(stocks[i]) = code =>
                     Count(stocks[i]) =
                         QuantityNormalizer(watch_remnants[FirstWith(code)].Kolichestvo)

\* C4 as amended: the same for a code in the snapshot that occurs once in the
\* catalog sequence: exactly one update, with the normalized quantity of the
\* first snapshot record carrying the code; later records with it emit nothing.
C4_OneUpdateFirstRecordWins ==
    pc = "returned" =>
        \A code \in SnapshotCodes :
            Occurrences(catalog, code) = 1 =>
                /\ Occurrences(SkuSeq(stocks), code) = 1
                /\ \A i \in 1..Len(stocks) :
                     Sku(stocks[i]) = code =>
                         Count(stocks[i]) =
                             QuantityNormalizer(watch_remnants[FirstWith(code)].Kolichestvo)

C4_Witness ==
    /\ pc = "returned"
    /\ Len(watch_remnants) = 2
    /\ watch_remnants[1].Kod = watch_remnants[2].Kod
    /\ watch_remnants[1].Kolichestvo = <<"1">>
    /\ watch_remnants[2].Kolichestvo = <<">", "1", "0">>
    /\ Occurrences(catalog, watch_remnants[1].Kod) = 1
    /\ Len(stocks) >= 2
    /\ Sku(stocks[1]) = watch_remnants[1].Kod
    /\ Count(stocks[1]) = 0

\* snapshot records that find their code still in the identifier list: the
\* k-th record with a code matches while the catalog holds the code k times
MatchedRecords ==
    { i \in 1..Len(watch_remnants) :
        Cardinality({ j \in 1..i : watch_remnants[j].Kod = watch_remnants[i].Kod })
            <= Occurrences(catalog, watch_remnants[i].Kod) }

\* catalog entries no snapshot record consumed: the k-th entry of an
\* identifier stays when the snapshot holds the identifier less than k times
UnmatchedEntries ==
    { p \in 1..Len(catalog) :
        Cardinality({ q \in 1..p : catalog[q] = catalog[p] })
            > Cardinality({ j \in 1..Len(watch_remnants) :
                              watch_remnants[j].Kod = catalog[p] }) }

C12_IdentifierListEmptiedOnReturn ==
    pc = "returned" => offer_ids = <<>>

\* C12 as amended: when create_stocks has returned, the identifier list it
\* was given holds the catalog entries no snapshot record matched, in catalog
\* order (the entries the second loop gave stock 0), and is empty only when
\* every entry was matched.
C12_IdentifierListKeepsUnmatchedOnReturn ==
    pc = "returned" =>
        /\ offer_ids = AtPositions(catalog, UnmatchedEntries)
        /\ offer_ids = <<>> <=>
               \A id \in Range(catalog) :
                   Occurrences(catalog, id)
                       <= Cardinality({ j \in 1..Len(watch_remnants) :
                                          watch_remnants[j].Kod = id })

C12_Witness ==
    /\ pc = "returned"
    /\ catalog = <<"A", "B", "C">>
    /\ Len(watch_remnants) = 1
    /\ watch_remnants[1].Kod = "B"
    /\ offer_ids = <<"A", "C">>
    /\ Len(stocks) = 3

-----------------------------------------------------------------------------
(* Properties of create_prices *)

PriceId(r) == IF "offer_id" \in DOMAIN r THEN r.offer_id ELSE r.id

\* C6: create_prices returns, in snapshot order, one price update for each
\* snapshot record whose code is in the identifier list (a repeated code is
\* repeated) and none for an identifier without a snapshot record.
C6_OnePricePerMatchingRecord ==
    pc = "returned" =>
        /\ [i \in 1..Len(prices) |-> PriceId(prices[i])] =
               AtPositions([i \in 1..Len(watch_remnants) |-> watch_remnants[i].Kod],
                           { i \in 1..Len(watch_remnants) :
                               watch_remnants[i].Kod \in Range(catalog) })
        /\ \A id \in Range(catalog) \ SnapshotCodes :
               \A i \in 1..Len(prices) : PriceId(prices[i]) # id

C6_Witness ==
    /\ pc = "returned"
    /\ Len(watch_remnants) = 2
    /\ watch_remnants[1].Kod = watch_remnants[2].Kod
    /\ Len(prices) = 2
    /\ PriceId(prices[1]) = PriceId(prices[2])
    /\ \E id \in Range(catalog) : id \notin SnapshotCodes

-----------------------------------------------------------------------------
(* Properties of divide *)

RECURSIVE Concat(_)
Concat(ss) == IF ss = <<>> THEN <<>> ELSE Head(ss) \o Concat(Tail(ss))

\* C7: for a size above 0 the chunks, concatenated in order, are the list;
\* every chunk but the last has exactly the size; no chunk is empty or
\* longer than the size; the empty list has no chunks.
C7_ChunksPartitionTheList ==
    (pc # "call" /\ n > 0) =>
        /\ pc = "returned"
        /\ Concat(chunks) = lst
        /\ \A k \in 1..(Len(chunks) - 1) : Len(chunks[k]) = n
        /\ \A k \in 1..Len(chunks) : Len(chunks[k]) >= 1 /\ Len(chunks[k]) <= n
        /\ lst = <<>> => chunks = <<>>

C7_Witness ==
    /\ pc = "returned"
    /\ n = 2
    /\ Len(lst) = 5
    /\ [k \in 1..Len(chunks) |-> Len(chunks[k])] = <<2, 2, 1>>

\* C8 as stated: for every size of 0 or below, and every list, divide fails
\* and yields no chunk.
C8_NonPositiveSizeFails ==
    (pc # "call" /\ n <= 0) => (pc = "raised" /\ chunks = <<>>)

\* C8 as amended: for size 0, and every list, divide fails and yields no
\* chunk; for a size below 0 it does not fail and yields no chunk.
C8_ZeroSizeFailsNegativeYieldsNothing ==
    /\ (pc # "call" /\ n = 0) => (pc = "raised" /\ chunks = <<>>)
    /\ (pc # "call" /\ n < 0) => (pc = "returned" /\ chunks = <<>>)

C8_Witness ==
    /\ pc = "raised"
    /\ n = 0
    /\ Len(lst) = 2

-----------------------------------------------------------------------------
(* Properties of seller.main *)

\* C2: in a pass of seller.main that no collaborator failed, every snapshot
\* record whose code is in the fetched catalog has a price update, with its
\* converted price, in a batch that update_price delivered.
C2_MatchedRecordsHaveTheirPriceSubmitted ==
    pc = "done" =>
        \A i \in 1..Len(watch_remnants) :
            watch_remnants[i].Kod \in Range(catalog) =>
                \E b \in 1..Len(sent_prices) :
                    \E j \in 1..Len(sent_prices[b]) :
                        /\ sent_prices[b][j].offer_id = watch_remnants[i].Kod
                        /\ sent_prices[b][j].price =
                               seller_price_conversion(watch_remnants[i].Cena)

\* C9: the count-based paginator goes on to another request only while the
\* items fetched so far are fewer than the total of the latest response.
C9_AnotherPageOnlyBelowTotal ==
    (pc = "get_offer_ids" /\ fetches > 0) => Len(product_list) < total

-----------------------------------------------------------------------------
(* Properties of market get_offer_ids *)

\* C10: the token-based paginator starts with the empty token, gives each
\* response's next-page token to the next request, goes on while that token
\* is not empty, stops at the first response whose token is empty or absent
\* and returns the identifiers of all pages in page order; it requests
\* nothing after an empty token and no page twice.
C10_TokenPagination ==
    /\ \A i \in 1..Len(asked) : asked[i] = IF i = 1 THEN 0 ELSE i
    /\ Len(asked) <= Len(listing.pages)
    /\ pc = "get_offer_ids" => Len(asked) < Len(listing.pages)
    /\ pc = "returned" =>
           /\ Len(asked) = Len(listing.pages)
           /\ catalog = [i \in 1..Len(Concat(listing.pages)) |->
                            Concat(listing.pages)[i].offer.shopSku]
           /\ offer_ids = catalog

C10_Witness ==
    /\ pc = "returned"
    /\ Len(listing.pages) = 2
    /\ listing.last = 0 - 1
    /\ asked = <<0, 2>>
    /\ catalog = <<"A", "B", "B", "A">>


-----------------------------------------------------------------------------
(* Properties of market.main *)

\* the upload_prices coroutine of campaign c has run to its end
PriceUploadCompleted(c) ==
    \E i \in 1..Len(coroutines) :
        /\ coroutines[i].campaign = c
        /\ coroutines[i].state = "finished"

\* C11: in market.main the price-upload step of a campaign (catalog fetch,
\* price reconciliation, submission of every price chunk) has completed
\* before the catalog fetch of the next campaign starts and before main
\* returns.
C11_PriceUploadCompletedBeforeNextStep ==
    /\ campaign = "DBS" => PriceUploadCompleted("FBS")
    /\ pc = "m_done" => PriceUploadCompleted("FBS") /\ PriceUploadCompleted("DBS")

-----------------------------------------------------------------------------
(* Properties of a failed chunk submission in either main *)

\* the batches in sent that carry the warehouse of campaign c
BatchesOf(sent, c) ==
    SelectSeq(sent, LAMBDA b : b[1].warehouseId = market_warehouse(c))

\* C13: when the submission of chunk k of an update list fails in main, the
\* chunks 1..k-1 were submitted once each, in order, and stay submitted;
\* chunk k is not submitted again; no later chunk and no later step of the
\* pass is submitted; and the error ends the pass at main's except clauses,
\* after which main takes no further step.
C13_FailedChunkEndsThePass ==
    /\ error \in {"update_stocks", "update_price"} => pc \in {"caught", "m_caught"}
    /\ pc \in {"caught", "m_caught"} => ~ENABLED NextMain
    /\ (pc = "caught" /\ error = "update_stocks") =>
           /\ submitted < Len(chunks)
           /\ sent_stocks = SubSeq(chunks, 1, submitted)
           /\ sent_prices = <<>>
    /\ (pc = "caught" /\ error = "update_price") =>
           /\ submitted < Len(chunks)
           /\ sent_prices = SubSeq(chunks, 1, submitted)
           /\ sent_stocks = seller_divide(stocks, SellerStockBatch)
    /\ (pc = "m_caught" /\ error = "update_stocks") =>
           /\ submitted < Len(chunks)
           /\ BatchesOf(sent_stocks, campaign) = SubSeq(chunks, 1, submitted)
           /\ campaign = "FBS" =>
                  /\ BatchesOf(sent_stocks, "DBS") = <<>>
                  /\ coroutines = <<>>
           /\ campaign = "DBS" => Len(coroutines) = 1
           /\ sent_prices = <<>>

\* the second of three chunks of the FBS stocks fails
C13_Witness ==
    /\ pc = "m_caught"
    /\ error = "update_stocks"
    /\ campaign = "FBS"
    /\ Len(chunks) = 3
    /\ submitted = 1
    /\ sent_stocks = <<chunks[1]>>

=============================================================================
